---- MODULE Spec2Model ----
(***************************************************************************)
(* A model of the event publishing subsystem of orthanc-plugins:           *)
(*   - DicomEvents.on_stored_instance and its per-series throttle state    *)
(*     (src/dicom_events/dicom_events.py),                                 *)
(*   - the Broker facade and its two publishers                            *)
(*     (src/dicom_events/broker/*.py).                                     *)
(* Time is the monotonic clock in abstract units; None is 0 wherever an    *)
(* object id, a timer id or a payload id is optional.                      *)
(***************************************************************************)
EXTENDS Integers, Sequences, FiniteSets, TLC

\* ------------------------------------------------------------------ bounds
\* Last clock value at which a stored instance may arrive.
MaxTime == 3
\* Number of stored-instance callbacks over a run.
MaxEvents == 3
\* Number of change callbacks (stable series, series deleted) over a run.
MaxChanges == 1
\* The StoredInstanceThrottleMs value of the configurations with throttling.
ThrottleMs == 2

Keys == {"s1", "s2"}
Threads == {"t1", "t2"}
NoneId == 0

VARIABLES
    clock,              \* time.monotonic() * 1000
    config,             \* EventsConfig: the event classes that are enabled
    throttle_ms,        \* DicomEvents.stored_instance_throttle_ms
    callers,            \* the threads that call on_stored_instance
    series_state,       \* DicomEvents.series_state: key -> SeriesStoreState object id
    heap,               \* the SeriesStoreState objects, by object id
    timers,             \* the threading.Timer objects, by timer id
    events,             \* the StoredInstancePayload objects, by arrival
    pc,                 \* where each caller is in on_stored_instance
    cur,                \* the payload each caller holds
    handed,             \* the calls of broker.publish, in order
    changes,            \* number of change callbacks handled
    deletedPending,     \* payloads that were pending when their series was deleted
    lastObserved,       \* key -> the payload that passed the locked section last
    deletedKeys,        \* keys for which a series-deleted change was handled
    lastChange          \* the change callback handled last: its kind and key

VARIABLES
    facade,             \* the Broker object: "absent", "built" or "failed" (constructor raised)
    kind,               \* config["Type"] given to the constructor
    broker,             \* Broker.broker: the publisher held, or "None"
    calls,              \* the calls of connect, disconnect and publish, as they returned
    fpc,                \* where the lifecycle caller is: "idle" or "joining" (in disconnect)
    net,                \* whether the remote broker accepts connections and publishes
    msgs,               \* number of messages given to publish so far
    publish_queue,      \* RabbitMQBroker._publish_queue
    stop_event,         \* RabbitMQBroker._stop_event
    rabbit_thread,      \* RabbitMQBroker._thread: "new", "alive" or "dead"
    rabbit_started,     \* how often RabbitMQBroker._thread was started
    connection,         \* RabbitMQBroker.connection: "None", "open" or "closed"
    reconnect_delay,    \* the local reconnect_delay of _run
    rpc,                \* where _run is
    rhand,              \* the queue entry _run holds
    rsent,              \* the entries basic_publish delivered
    msg_queue,          \* SNSBroker._msg_queue
    msg_queue_lock,     \* SNSBroker._msg_queue_lock: "free" or its holder
    running,            \* SNSBroker._running
    sns_thread,         \* SNSBroker._thread is set
    sns_started,        \* how many worker threads SNSBroker.connect started
    sns_client,         \* SNSBroker.sns_client: "None" or "client"
    spc,                \* where _worker_loop is
    shand,              \* the message _worker_loop holds
    ssent,              \* the messages sns_client.publish delivered
    rfailed,            \* the queue entries whose basic_publish raised at least once
    rfails,             \* failures of _run since its last successful connect
    sfailed,            \* the messages whose sns_client.publish raised
    sskipped,           \* the messages _publish_msg returned on without a client
    confirm_publish,    \* RabbitMQBroker.confirm_publish, config["ConfirmPublish"]
    confirms,           \* the channel's confirm mode: "on", "off" or "failed" (could not be enabled)
    unserializable,     \* the messages given to publish that json.dumps cannot serialize
    runacked,           \* the entries basic_publish returned on without an acknowledgment
    rnacked,            \* the entries whose basic_publish raised for want of an acknowledgment
    failed_before       \* the last successful connect came after two failures in a row or more

VARIABLES
    host,               \* the lifecycle changes Orthanc has sent and on_change has handled
    processor,          \* the Thread running process_instances: "new" or "alive"
    ppc,                \* where process_instances is
    pmark,              \* Len(events) when process_instances took the instance it holds
    pinst,              \* the series of the instance process_instances holds
    instance_queue,     \* instance_queue, as the series of the instances put on it
    stored              \* number of instances put on instance_queue so far

facadeVars == <<facade, kind, broker, calls, fpc, net, msgs>>

rabbitVars == <<publish_queue, stop_event, rabbit_thread, rabbit_started, connection,
                reconnect_delay, rpc, rhand, rsent>>

snsVars == <<msg_queue, msg_queue_lock, running, sns_thread, sns_started, sns_client,
             spc, shand, ssent>>

\* What has happened to the messages the workers took.
historyVars == <<rfailed, rfails, sfailed, sskipped>>

\* The channel of the RabbitMQ publisher and what its messages met there.
channelVars == <<confirm_publish, confirms, unserializable, runacked, rnacked,
                 failed_before>>

brokerVars == <<facadeVars, rabbitVars, snsVars, historyVars, channelVars>>

\* The module src/__init__.py: the host's callbacks and the processing thread.
hostVars == <<host, processor, ppc, pmark, pinst, instance_queue, stored>>

throttleVars == <<clock, config, throttle_ms, callers, series_state, heap, timers,
                  events, pc, cur, handed, changes, deletedPending, lastObserved,
                  deletedKeys, lastChange>>

vars == <<throttleVars, brokerVars, hostVars>>

\* ------------------------------------------------------- SeriesStoreState
\* No change callback has been handled.
NoChange == [kind |-> "none", key |-> "none"]

\* A fresh SeriesStoreState (dataclass defaults).
SeriesStoreState ==
    [count |-> 0, last_publish_ms |-> 0, trailing_timer |-> NoneId,
     trailing_payload |-> NoneId]

\* A mutant of TimerCancel: the trailing timer is never cancelled.
TimerCancel_Never(tms, id) == tms

\* threading.Timer.cancel(): stops a timer that is still waiting; a timer whose
\* wait is over (its callback is about to take the lock) is not stopped.
TimerCancel(tms, id) ==
    IF id # NoneId /\ tms[id].status = "waiting"
    THEN [tms EXCEPT ![id].status = "cancelled"]
    ELSE tms

\* A mutant of TimerStart: the timer is due interval after the last publish
\* of the state object.
TimerStart_FromLastPublish(tms, s, interval) ==
    Append(tms, [status |-> "waiting",
                 deadline |-> (IF s \in DOMAIN heap THEN heap[s].last_publish_ms ELSE 0)
                                 + interval,
                 state |-> s])

\* A mutant of TimerStart: the timer is created and never started.
TimerStart_NotStarted(tms, s, interval) ==
    Append(tms, [status |-> "unstarted", deadline |-> clock + interval, state |-> s])

\* threading.Timer(throttle_ms / 1000.0, send_trailing).start(): the closure
\* send_trailing keeps the state object s; the timer is due interval after now.
TimerStart(tms, s, interval) ==
    Append(tms, [status |-> "waiting", deadline |-> clock + interval, state |-> s])

\* broker.publish(payload.toDict(), payload.identity) for a stored instance.
BrokerPublish(log, e, via) == Append(log, [ev |-> e, t |-> clock, via |-> via])

\* The throttling tests of on_stored_instance.
ThrottlingEnabled == throttle_ms > 0

WithinThrottle(now, last_publish_ms) == now - last_publish_ms < throttle_ms

\* Number of payloads that have passed the locked section.
Observed == Cardinality({e \in 1..Len(events) : events[e].seq > 0})

\* A mutant of ClearTrailing: the pending payload stays.
ClearTrailing_KeepPayload(st) == [st EXCEPT !.trailing_timer = NoneId]

\* on_stored_instance, the immediate branch: state.trailing_timer = None and
\* state.trailing_payload = None.
ClearTrailing(st) == [st EXCEPT !.trailing_timer = NoneId, !.trailing_payload = NoneId]

\* ------------------------------------------------------ on_stored_instance
\* Entry: the early return, the clock read, the payload built outside the lock.
\* seq is the order in which the payloads took the lock, state the state
\* object they found or created there.
on_stored_instance(p, k) ==
    /\ p \in callers
    /\ pc[p] = "idle"
    /\ config.StoredInstance
    /\ events' = Append(events, [seriesID |-> k, now |-> clock, instanceCount |-> 0,
                                 seq |-> 0, state |-> NoneId])
    /\ cur' = [cur EXCEPT ![p] = Len(events) + 1]
    /\ pc' = [pc EXCEPT ![p] = "lock"]
    /\ UNCHANGED <<clock, config, throttle_ms, callers, series_state, heap, timers,
                   handed, changes, deletedPending, lastObserved, deletedKeys, lastChange>>
    /\ UNCHANGED <<brokerVars, hostVars>>

\* The block under series_state_lock.
LockedSection(p) ==
    LET e == cur[p]
        k == events[e].seriesID
        now == events[e].now
        isNew == series_state[k] = NoneId
        s == IF isNew THEN Len(heap) + 1 ELSE series_state[k]
        heap1 == IF isNew THEN Append(heap, SeriesStoreState) ELSE heap
        st == heap1[s]
        cnt == st.count + 1
    IN
    /\ pc[p] = "lock"
    /\ series_state' = [series_state EXCEPT ![k] = s]
    /\ events' = [events EXCEPT ![e].instanceCount = cnt, ![e].seq = Observed + 1,
                                ![e].state = s]
    /\ lastObserved' = [lastObserved EXCEPT ![k] = e]
    /\ IF ThrottlingEnabled /\ WithinThrottle(now, st.last_publish_ms)
       THEN \* schedule the trailing message and return
            /\ timers' = TimerStart(TimerCancel(timers, st.trailing_timer), s, throttle_ms)
            /\ heap' = [heap1 EXCEPT ![s] =
                          [count |-> cnt, last_publish_ms |-> st.last_publish_ms,
                           trailing_timer |-> Len(timers) + 1, trailing_payload |-> e]]
            /\ pc' = [pc EXCEPT ![p] = "idle"]
            /\ cur' = [cur EXCEPT ![p] = NoneId]
       ELSE IF ThrottlingEnabled
       THEN \* send immediately, cancel any trailing timer
            /\ timers' = TimerCancel(timers, st.trailing_timer)
            /\ heap' = [heap1 EXCEPT ![s] =
                          IF st.trailing_timer # NoneId
                          THEN ClearTrailing([st EXCEPT !.count = cnt,
                                                        !.last_publish_ms = now])
                          ELSE [st EXCEPT !.count = cnt, !.last_publish_ms = now]]
            /\ pc' = [pc EXCEPT ![p] = "publish"]
            /\ cur' = cur
       ELSE \* throttling disabled
            /\ timers' = timers
            /\ heap' = [heap1 EXCEPT ![s].count = cnt]
            /\ pc' = [pc EXCEPT ![p] = "publish"]
            /\ cur' = cur
    /\ UNCHANGED <<clock, config, throttle_ms, callers, handed, changes,
                   deletedPending, deletedKeys, lastChange>>
    /\ UNCHANGED <<brokerVars, hostVars>>

\* A mutant of PublishStep: the publish sits inside the throttling branch.
PublishStep_OnlyThrottled(p) ==
    /\ pc[p] = "publish"
    /\ handed' = IF ThrottlingEnabled THEN BrokerPublish(handed, cur[p], "immediate")
                  ELSE handed
    /\ pc' = [pc EXCEPT ![p] = "idle"]
    /\ cur' = [cur EXCEPT ![p] = NoneId]
    /\ UNCHANGED <<clock, config, throttle_ms, callers, series_state, heap, timers,
                   events, changes, deletedPending, lastObserved, deletedKeys, lastChange>>
    /\ UNCHANGED <<brokerVars, hostVars>>

\* The publish after the lock is released.
PublishStep(p) ==
    /\ pc[p] = "publish"
    /\ handed' = BrokerPublish(handed, cur[p], "immediate")
    /\ pc' = [pc EXCEPT ![p] = "idle"]
    /\ cur' = [cur EXCEPT ![p] = NoneId]
    /\ UNCHANGED <<clock, config, throttle_ms, callers, series_state, heap, timers,
                   events, changes, deletedPending, lastObserved, deletedKeys, lastChange>>
    /\ UNCHANGED <<brokerVars, hostVars>>

\* threading.Timer.run: the wait of the interval is over and the timer was not
\* cancelled; from here on cancel() has no effect.
TimerExpire(i) ==
    /\ timers[i].status = "waiting"
    /\ clock >= timers[i].deadline
    /\ timers' = [timers EXCEPT ![i].status = "fired"]
    /\ UNCHANGED <<clock, config, throttle_ms, callers, series_state, heap, events,
                   pc, cur, handed, changes, deletedPending, lastObserved, deletedKeys, lastChange>>
    /\ UNCHANGED <<brokerVars, hostVars>>

\* send_trailing, the timer's callback: all of it runs under series_state_lock,
\* on the state object the closure kept.
send_trailing(i) ==
    LET s == timers[i].state
        st == heap[s]
    IN
    /\ timers[i].status = "fired"
    /\ timers' = [timers EXCEPT ![i].status = "done"]
    /\ IF st.trailing_payload # NoneId
       THEN /\ handed' = BrokerPublish(handed, st.trailing_payload, "trailing")
            /\ heap' = [heap EXCEPT ![s] =
                          [st EXCEPT !.last_publish_ms = clock,
                                     !.trailing_payload = NoneId,
                                     !.trailing_timer = NoneId]]
       ELSE /\ handed' = handed
            /\ heap' = heap
    /\ UNCHANGED <<clock, config, throttle_ms, callers, series_state, events, pc, cur,
                   changes, deletedPending, lastObserved, deletedKeys, lastChange>>
    /\ UNCHANGED <<brokerVars, hostVars>>

\* ------------------------------------------------------------- on_change
\* A mutant of DelSeriesState: the entry stays in the map.
DelSeriesState_Keep(map, k) == map

\* del self.series_state[resource_id] under the lock: the map entry goes, the
\* state object and its timer stay as they are.
DelSeriesState(map, k) == [map EXCEPT ![k] = NoneId]


\* The payloads of key k that wait for a timer that has not fired.
PendingOf(k) ==
    IF series_state[k] # NoneId
       /\ heap[series_state[k]].trailing_payload # NoneId
       /\ heap[series_state[k]].trailing_timer # NoneId
       /\ timers[heap[series_state[k]].trailing_timer].status = "waiting"
    THEN {heap[series_state[k]].trailing_payload}
    ELSE {}

\* _on_resource_deleted for ResourceType.SERIES.
OnResourceDeleted(k) ==
    /\ changes < MaxChanges
    /\ changes' = changes + 1
    /\ deletedPending' = IF config.DeletedSeries THEN deletedPending \cup PendingOf(k)
                          ELSE deletedPending
    /\ deletedKeys' = deletedKeys \cup {k}
    /\ lastChange' = [kind |-> "deleted", key |-> k]
    /\ series_state' = IF config.DeletedSeries THEN DelSeriesState(series_state, k)
                       ELSE series_state
    /\ UNCHANGED <<clock, config, throttle_ms, callers, heap, timers, events, pc, cur,
                   handed, lastObserved>>
    /\ UNCHANGED <<brokerVars, hostVars>>

\* _on_stable_series.
OnStableSeries(k) ==
    /\ changes < MaxChanges
    /\ changes' = changes + 1
    /\ series_state' = IF config.StableSeries THEN DelSeriesState(series_state, k)
                       ELSE series_state
    /\ lastChange' = [kind |-> "stable", key |-> k]
    /\ UNCHANGED <<clock, config, throttle_ms, callers, heap, timers, events, pc, cur,
                   handed, deletedPending, lastObserved, deletedKeys>>
    /\ UNCHANGED <<brokerVars, hostVars>>

\* A stored instance arrives, at a time up to MaxTime.
Arrive(p, k) ==
    /\ Len(events) < MaxEvents
    /\ clock <= MaxTime
    /\ on_stored_instance(p, k)

\* The clock advances while an arrival or a timer can still depend on it. The
\* clock unit is the throttle's (milliseconds): a call of on_stored_instance
\* takes none of it.
Tick ==
    /\ \/ clock < MaxTime /\ Len(events) < MaxEvents
       \/ \E i \in 1..Len(timers) :
            timers[i].status = "waiting" /\ timers[i].deadline > clock
    /\ \A p \in Threads : pc[p] = "idle"
    /\ clock' = clock + 1
    /\ UNCHANGED <<config, throttle_ms, callers, series_state, heap, timers, events,
                   pc, cur, handed, changes, deletedPending, lastObserved, deletedKeys, lastChange>>
    /\ UNCHANGED <<brokerVars, hostVars>>

\* ------------------------------------------------------------------ Spec
ThrottleInit ==
    /\ clock = 0
    /\ config \in [StoredInstance : BOOLEAN, DeletedSeries : BOOLEAN,
                   StableSeries : BOOLEAN]
    /\ throttle_ms \in {0, ThrottleMs}
    /\ callers \in {{"t1"}, Threads}
    /\ series_state = [k \in Keys |-> NoneId]
    /\ heap = <<>>
    /\ timers = <<>>
    /\ events = <<>>
    /\ pc = [p \in Threads |-> "idle"]
    /\ cur = [p \in Threads |-> NoneId]
    /\ handed = <<>>
    /\ changes = 0
    /\ deletedPending = {}
    /\ lastObserved = [k \in Keys |-> NoneId]
    /\ deletedKeys = {}
    /\ lastChange = NoChange

Next ==
    \/ \E p \in Threads, k \in Keys : Arrive(p, k)
    \/ \E p \in Threads : LockedSection(p)
    \/ \E p \in Threads : PublishStep(p)
    \/ \E i \in 1..Len(timers) : TimerExpire(i)
    \/ \E i \in 1..Len(timers) : send_trailing(i)
    \/ \E k \in Keys : OnResourceDeleted(k)
    \/ \E k \in Keys : OnStableSeries(k)
    \/ Tick

\* src/__init__.py as imported: the queue empty, the processing thread
\* created and not started, no lifecycle change sent yet.
HostLoaded ==
    /\ host = "loaded" /\ processor = "new" /\ ppc = "new"
    /\ pmark = 0 /\ pinst = "none" /\ instance_queue = <<>> /\ stored = 0

\* The broker as constructed and not yet connected, in the module as imported.
PublishersInit ==
    /\ facade = "absent" /\ kind = "none" /\ broker = "None"
    /\ calls = <<>> /\ fpc = "idle" /\ net \in BOOLEAN /\ msgs = 0
    /\ publish_queue = <<>> /\ stop_event = FALSE /\ rabbit_thread = "new"
    /\ rabbit_started = 0 /\ connection = "None" /\ reconnect_delay = 1
    /\ rpc = "new" /\ rhand = NoneId /\ rsent = <<>>
    /\ msg_queue = <<>> /\ msg_queue_lock = "free" /\ running = FALSE
    /\ sns_thread = FALSE /\ sns_started = 0 /\ sns_client = "None"
    /\ spc = "new" /\ shand = NoneId /\ ssent = <<>>
    /\ rfailed = {} /\ rfails = 0 /\ sfailed = {} /\ sskipped = {}
    /\ confirms = "off" /\ unserializable = {}
    /\ runacked = {} /\ rnacked = {} /\ failed_before = FALSE
    /\ HostLoaded

\* RabbitMQBroker.__init__: config.get("ConfirmPublish", False), the key not given.
BrokerInit == PublishersInit /\ confirm_publish = FALSE

\* The throttle of DicomEvents, with the broker as the sink of its publishes.
Init == ThrottleInit /\ BrokerInit /\ net = TRUE

Spec == Init /\ [][Next]_vars

\* The progress the threads and timers of the process make: a caller that holds
\* a payload goes on, a started timer runs, the clock moves.
Fairness ==
    /\ \A p \in Threads : WF_vars(LockedSection(p)) /\ WF_vars(PublishStep(p))
    /\ WF_vars(\E i \in 1..Len(timers) : TimerExpire(i))
    /\ WF_vars(\E i \in 1..Len(timers) : send_trailing(i))
    /\ WF_vars(Tick)

FairSpec == Spec /\ Fairness

\* ------------------------------------------------- the throttle trace
\* The trace of section 8 in units of 10 ms: window 100 ms, arrivals 0, 30, 80
\* and 150 ms after the first one, for one key and one caller.
TraceThrottleMs == 100 \div 10
TraceTimes == <<0, 3, 8, 15>>
\* The clock values at which the first instance of the trace may arrive.
TraceMaxStart == 12

\* Clock value of the first arrival of the trace.
TraceBase == IF events = <<>> THEN clock ELSE events[1].now

TraceArrivalDue ==
    /\ Len(events) < Len(TraceTimes)
    /\ clock = TraceBase + TraceTimes[Len(events) + 1]

TraceArrive ==
    /\ TraceArrivalDue
    /\ on_stored_instance("t1", "s1")

\* In the trace every arrival and every timer is served at its time.
TraceTick ==
    /\ ~TraceArrivalDue
    /\ \A p \in Threads : pc[p] = "idle"
    /\ \A i \in 1..Len(timers) :
          /\ timers[i].status # "fired"
          /\ timers[i].status = "waiting" => timers[i].deadline > clock
    /\ clock < TraceBase + TraceTimes[Len(TraceTimes)] + TraceThrottleMs
    /\ clock' = clock + 1
    /\ UNCHANGED <<config, throttle_ms, callers, series_state, heap, timers, events,
                   pc, cur, handed, changes, deletedPending, lastObserved, deletedKeys, lastChange>>
    /\ UNCHANGED <<brokerVars, hostVars>>

TraceInit ==
    /\ clock \in 0..TraceMaxStart
    /\ config = [StoredInstance |-> TRUE, DeletedSeries |-> TRUE, StableSeries |-> TRUE]
    /\ throttle_ms = TraceThrottleMs
    /\ callers = {"t1"}
    /\ series_state = [k \in Keys |-> NoneId]
    /\ heap = <<>>
    /\ timers = <<>>
    /\ events = <<>>
    /\ pc = [p \in Threads |-> "idle"]
    /\ cur = [p \in Threads |-> NoneId]
    /\ handed = <<>>
    /\ changes = 0
    /\ deletedPending = {}
    /\ lastObserved = [k \in Keys |-> NoneId]
    /\ deletedKeys = {}
    /\ lastChange = NoChange
    /\ BrokerInit /\ net = TRUE

TraceNext ==
    \/ TraceArrive
    \/ LockedSection("t1")
    \/ PublishStep("t1")
    \/ \E i \in 1..Len(timers) : TimerExpire(i)
    \/ \E i \in 1..Len(timers) : send_trailing(i)
    \/ TraceTick

SpecTrace == TraceInit /\ [][TraceNext]_vars

\* ------------------------------------------------------------ the broker
\* Number of connect, disconnect and publish calls over a run of the facade.
MaxCalls == 4

\* config["Type"]: the two supported kinds and one that is neither.
Supported == {"rabbitmq", "sqs-sns"}
TransportKinds == Supported \cup {"kafka"}

\* RabbitMQBroker._run: reconnect_delay = 1.0 and the MaxReconnectDelay default.
ReconnectFloor == 1
MaxReconnectDelay == 60

\* A mutant of ConstructOutcome: an unsupported kind is logged and not raised.
ConstructOutcome_Deferred(k, url) ==
    IF k = "rabbitmq" /\ url THEN [facade |-> "built", broker |-> "rabbitmq"]
    ELSE IF k = "sqs-sns" THEN [facade |-> "built", broker |-> "sqs-sns"]
    ELSE IF k = "rabbitmq" THEN [facade |-> "failed", broker |-> "None"]
    ELSE [facade |-> "built", broker |-> "None"]

\* Broker.__init__: the publisher it builds, or the ValueError it raises (of
\* its own for an unsupported kind, of RabbitMQBroker.__init__ for a missing URL).
ConstructOutcome(k, url) ==
    IF k = "rabbitmq" /\ url THEN [facade |-> "built", broker |-> "rabbitmq"]
    ELSE IF k = "sqs-sns" THEN [facade |-> "built", broker |-> "sqs-sns"]
    ELSE [facade |-> "failed", broker |-> "None"]

\* Mutants of the try/except blocks of the facade: the exception goes on.
ConnectRaises_Reraise(exc) == exc

\* What Broker.connect raises to its caller when the publisher's connect
\* raised exc: the except clause logs it.
ConnectRaises(exc) == "none"

\* The same mutant of Broker.disconnect.
DisconnectRaises_Reraise(exc) == exc

\* Broker.disconnect: the except clause logs what the publisher raised.
DisconnectRaises(exc) == "none"

\* Broker.publish: the except clause logs what the publisher raised.
PublishRaises(exc) == "none"

\* A mutant of SnsStartsWorker: connect starts a worker on every call.
SnsStartsWorker_Always == TRUE

\* SNSBroker.connect: the worker is started when none is running.
SnsStartsWorker == ~running

\* A mutant of LockAfterPop: the worker keeps the queue lock until it has
\* published the message it took.
LockAfterPop_Held == "worker"

\* SNSBroker._get_next_msg: the lock is released on return.
LockAfterPop == "free"

\* One returned call of the facade: the publisher held when it was made, what
\* it raised, the exception the facade absorbed, whether a queue grew, whether
\* a worker was started, and whether the publisher's worker was started before.
Call(op, held, raised, absorbed, queued, spawned, started) ==
    [op |-> op, held |-> held, raised |-> raised, absorbed |-> absorbed,
     queued |-> queued, spawned |-> spawned, started |-> started]

WorkerStarted ==
    IF broker = "rabbitmq" THEN rabbit_started > 0
    ELSE IF broker = "sqs-sns" THEN sns_started > 0
    ELSE FALSE

\* Broker(config).
BrokerConstruct(k, url) ==
    /\ facade = "absent"
    /\ kind' = k
    /\ facade' = ConstructOutcome(k, url).facade
    /\ broker' = ConstructOutcome(k, url).broker
    /\ UNCHANGED <<calls, fpc, net, msgs, rabbitVars, snsVars, throttleVars, hostVars, channelVars, historyVars>>

\* Broker.connect with no publisher: raises ValueError.
FacadeConnectNone ==
    /\ facade = "built" /\ fpc = "idle" /\ Len(calls) < MaxCalls
    /\ broker = "None"
    /\ calls' = Append(calls, Call("connect", broker, "ValueError", "none",
                                   FALSE, FALSE, WorkerStarted))
    /\ UNCHANGED <<facade, kind, broker, fpc, net, msgs, rabbitVars, snsVars,
                   throttleVars, hostVars, channelVars, historyVars>>

\* Broker.connect -> RabbitMQBroker.connect: starts the thread unless it is
\* alive; Thread.start raises RuntimeError for a thread that has run.
FacadeConnectRabbit ==
    /\ facade = "built" /\ fpc = "idle" /\ Len(calls) < MaxCalls
    /\ broker = "rabbitmq"
    /\ IF rabbit_thread = "alive"
       THEN /\ calls' = Append(calls, Call("connect", broker, "none", "none",
                                           FALSE, FALSE, WorkerStarted))
            /\ UNCHANGED <<stop_event, rabbit_thread, rabbit_started, rpc>>
       ELSE IF rabbit_thread = "new"
       THEN /\ stop_event' = FALSE
            /\ rabbit_thread' = "alive"
            /\ rabbit_started' = rabbit_started + 1
            /\ rpc' = "outer"
            /\ calls' = Append(calls, Call("connect", broker, "none", "none",
                                           FALSE, TRUE, WorkerStarted))
       ELSE /\ stop_event' = FALSE
            /\ calls' = Append(calls, Call("connect", broker,
                                           ConnectRaises("RuntimeError"), "RuntimeError",
                                           FALSE, FALSE, WorkerStarted))
            /\ UNCHANGED <<rabbit_thread, rabbit_started, rpc>>
    /\ UNCHANGED <<facade, kind, broker, fpc, net, msgs, publish_queue, connection,
                   reconnect_delay, rhand, rsent, snsVars, throttleVars, hostVars, channelVars, historyVars>>

\* A mutant of SnsConnectExc: the except clauses of connect log and return.
SnsConnectExc_Swallowed(reachable) == "none"

\* SNSBroker.connect: what get_topic_attributes raised is raised again.
SnsConnectExc(reachable) == IF reachable THEN "none" ELSE "ClientError"

\* Broker.connect -> SNSBroker.connect: a new client, the reachability check
\* (get_topic_attributes), then the worker.
FacadeConnectSns ==
    /\ facade = "built" /\ fpc = "idle" /\ Len(calls) < MaxCalls
    /\ broker = "sqs-sns"
    /\ sns_client' = "client"
    /\ IF SnsConnectExc(net) = "none"
       THEN /\ IF SnsStartsWorker
               THEN /\ running' = TRUE
                    /\ sns_thread' = TRUE
                    /\ sns_started' = sns_started + 1
                    /\ spc' = IF spc = "new" THEN "loop" ELSE spc
               ELSE UNCHANGED <<running, sns_thread, sns_started, spc>>
            /\ calls' = Append(calls, Call("connect", broker, "none", "none",
                                           FALSE, SnsStartsWorker, WorkerStarted))
       ELSE /\ calls' = Append(calls, Call("connect", broker,
                                           ConnectRaises(SnsConnectExc(net)),
                                           SnsConnectExc(net), FALSE, FALSE,
                                           WorkerStarted))
            /\ UNCHANGED <<running, sns_thread, sns_started, spc>>
    /\ UNCHANGED <<facade, kind, broker, fpc, net, msgs, rabbitVars, msg_queue,
                   msg_queue_lock, shand, ssent, throttleVars, hostVars, channelVars, historyVars>>

\* Broker.publish with no publisher: logged, the message is dropped.
FacadePublishNone ==
    /\ facade = "built" /\ Len(calls) < MaxCalls
    /\ broker = "None"
    /\ msgs' = msgs + 1
    /\ calls' = Append(calls, Call("publish", broker, "none", "none",
                                   FALSE, FALSE, WorkerStarted))
    /\ UNCHANGED <<facade, kind, broker, fpc, net, rabbitVars, snsVars, throttleVars, hostVars, channelVars, historyVars>>

\* queue.Queue() of RabbitMQBroker.__init__: no maxsize is given, and a
\* maxsize of zero or less makes the queue infinite.
QueueMaxSize == 0

\* Queue.put_nowait raises Full when maxsize > 0 and the queue holds maxsize.
QueueFull(q) == QueueMaxSize > 0 /\ Len(q) >= QueueMaxSize

\* Broker.publish -> RabbitMQBroker.publish: put_nowait on the queue; Full is
\* caught, logged and the message dropped.
FacadePublishRabbit ==
    /\ facade = "built" /\ Len(calls) < MaxCalls
    /\ broker = "rabbitmq"
    /\ msgs' = msgs + 1
    /\ IF QueueFull(publish_queue)
       THEN /\ UNCHANGED publish_queue
            /\ calls' = Append(calls, Call("publish", broker, PublishRaises("none"),
                                           "Full", FALSE, FALSE, WorkerStarted))
       ELSE /\ publish_queue' = Append(publish_queue, msgs + 1)
            /\ calls' = Append(calls, Call("publish", broker, PublishRaises("none"),
                                           "none", TRUE, FALSE, WorkerStarted))
    /\ UNCHANGED <<facade, kind, broker, fpc, net, stop_event, rabbit_thread,
                   rabbit_started, connection, reconnect_delay, rpc, rhand, rsent,
                   snsVars, throttleVars, hostVars, channelVars, historyVars>>

\* Broker.publish -> SNSBroker.publish: append under _msg_queue_lock.
FacadePublishSns ==
    /\ facade = "built" /\ Len(calls) < MaxCalls
    /\ broker = "sqs-sns"
    /\ msg_queue_lock = "free"
    /\ msgs' = msgs + 1
    /\ msg_queue' = Append(msg_queue, msgs + 1)
    /\ calls' = Append(calls, Call("publish", broker, PublishRaises("none"), "none",
                                   TRUE, FALSE, WorkerStarted))
    /\ UNCHANGED <<facade, kind, broker, fpc, net, rabbitVars, msg_queue_lock, running,
                   sns_thread, sns_started, sns_client, spc, shand, ssent, throttleVars, hostVars, channelVars,
                   historyVars>>

\* Broker.disconnect with no publisher: returns.
FacadeDisconnectNone ==
    /\ facade = "built" /\ fpc = "idle" /\ Len(calls) < MaxCalls
    /\ broker = "None"
    /\ calls' = Append(calls, Call("disconnect", broker, "none", "none",
                                   FALSE, FALSE, WorkerStarted))
    /\ UNCHANGED <<facade, kind, broker, fpc, net, msgs, rabbitVars, snsVars,
                   throttleVars, hostVars, channelVars, historyVars>>

\* Broker.disconnect -> RabbitMQBroker.disconnect up to the join: the stop
\* event is set; Thread.join raises RuntimeError for a thread never started,
\* which the facade absorbs before it drops the publisher.
FacadeDisconnectRabbitBegin ==
    /\ facade = "built" /\ fpc = "idle" /\ Len(calls) < MaxCalls
    /\ broker = "rabbitmq"
    /\ stop_event' = TRUE
    /\ IF rabbit_thread = "new"
       THEN /\ broker' = "None"
            /\ calls' = Append(calls, Call("disconnect", broker,
                                           DisconnectRaises("RuntimeError"),
                                           "RuntimeError", FALSE, FALSE, WorkerStarted))
            /\ fpc' = fpc
       ELSE /\ fpc' = "joining"
            /\ UNCHANGED <<broker, calls>>
    /\ UNCHANGED <<facade, kind, net, msgs, publish_queue, rabbit_thread, rabbit_started,
                   connection, reconnect_delay, rpc, rhand, rsent, snsVars, throttleVars, hostVars, channelVars,
                   historyVars>>

\* The join returns, the thread gone or the 2 s over; the caller closes the
\* connection if it is open, and the facade drops the publisher.
FacadeDisconnectRabbitEnd ==
    /\ fpc = "joining" /\ broker = "rabbitmq"
    /\ connection' = IF connection = "open" THEN "closed" ELSE connection
    /\ broker' = "None"
    /\ fpc' = "idle"
    /\ calls' = Append(calls, Call("disconnect", broker, "none", "none",
                                   FALSE, FALSE, WorkerStarted))
    /\ UNCHANGED <<facade, kind, net, msgs, publish_queue, stop_event, rabbit_thread,
                   rabbit_started, reconnect_delay, rpc, rhand, rsent, snsVars,
                   throttleVars, hostVars, channelVars, historyVars>>

\* Broker.disconnect -> SNSBroker.disconnect up to the join.
FacadeDisconnectSnsBegin ==
    /\ facade = "built" /\ fpc = "idle" /\ Len(calls) < MaxCalls
    /\ broker = "sqs-sns"
    /\ running' = FALSE
    /\ IF sns_thread
       THEN /\ fpc' = "joining"
            /\ UNCHANGED <<broker, calls, sns_client>>
       ELSE /\ sns_client' = "None"
            /\ broker' = "None"
            /\ calls' = Append(calls, Call("disconnect", broker, "none", "none",
                                           FALSE, FALSE, WorkerStarted))
            /\ fpc' = fpc
    /\ UNCHANGED <<facade, kind, net, msgs, rabbitVars, msg_queue, msg_queue_lock,
                   sns_thread, sns_started, spc, shand, ssent, throttleVars, hostVars, channelVars, historyVars>>

\* The join returns; thread and client are cleared, the publisher dropped.
FacadeDisconnectSnsEnd ==
    /\ fpc = "joining" /\ broker = "sqs-sns"
    /\ sns_thread' = FALSE
    /\ sns_client' = "None"
    /\ broker' = "None"
    /\ fpc' = "idle"
    /\ calls' = Append(calls, Call("disconnect", broker, "none", "none",
                                   FALSE, FALSE, WorkerStarted))
    /\ UNCHANGED <<facade, kind, net, msgs, rabbitVars, msg_queue, msg_queue_lock,
                   running, sns_started, spc, shand, ssent, throttleVars, hostVars, channelVars, historyVars>>

\* The broker on the network comes and goes.
NetFlip ==
    /\ facade = "built"
    /\ net' = ~net
    /\ UNCHANGED <<facade, kind, broker, calls, fpc, msgs, rabbitVars, snsVars,
                   throttleVars, hostVars, channelVars, historyVars>>

Min(a, b) == IF a < b THEN a ELSE b

\* How many failures in a row the model tells apart.
MaxFails == 8

\* A mutant of NextDelay: the delay grows by one.
NextDelay_Linear(d) == Min(MaxReconnectDelay, d + 1)

\* RabbitMQBroker._run: reconnect_delay = min(max_reconnect_delay, reconnect_delay * 2).
NextDelay(d) == Min(MaxReconnectDelay, d * 2)

\* The part of sleep_for that is not random.random().
SleepFor == Min(MaxReconnectDelay, reconnect_delay)

\* A mutant of Requeue: the failed entry goes to the head of the queue.
Requeue_Head(q, m) == <<m>> \o q

\* A mutant of Requeue: the failed entry is let go.
Requeue_Drop(q, m) == q

\* RabbitMQBroker._run: put_nowait of the entry whose basic_publish raised.
Requeue(q, m) == Append(q, m)

\* A mutant of WorkerExitClose: _run leaves without closing its connection.
WorkerExitClose_Skip(c) == c

\* RabbitMQBroker._run, after the outer loop: close the connection if open.
WorkerExitClose(c) == IF c = "open" THEN "closed" ELSE c

\* One more failure since the last successful connect.
Failed(n) == Min(n + 1, MaxFails)

\* RabbitMQBroker._run, the head of the outer loop: leave when the stop event
\* is set, closing the connection; else go to connect if no connection is open.
ROuter ==
    /\ rpc = "outer"
    /\ IF stop_event
       THEN /\ connection' = WorkerExitClose(connection)
            /\ rpc' = "done"
            /\ rabbit_thread' = "dead"
       ELSE /\ rpc' = IF connection # "open" THEN "connecting" ELSE "inner"
            /\ UNCHANGED <<connection, rabbit_thread>>
    /\ UNCHANGED <<facadeVars, publish_queue, stop_event, rabbit_started, reconnect_delay,
                   rhand, rsent, snsVars, throttleVars, hostVars, channelVars, historyVars>>

\* A mutant of DelayAfterConnect: the delay stays as the failures left it.
DelayAfterConnect_Keep(d) == d

\* RabbitMQBroker._run: reconnect_delay = 1.0 after _ensure_connection returned.
DelayAfterConnect(d) == ReconnectFloor

\* _ensure_connection: with ConfirmPublish the channel is put in confirm mode,
\* or confirm_delivery() raises and the worker goes on without confirms.
ConfirmModes(enabled) == IF enabled THEN {"on", "failed"} ELSE {"off"}

\* _ensure_connection returns or raises: connected with the delay reset, or
\* the backoff wait.
RConnect ==
    /\ rpc = "connecting"
    /\ IF net
       THEN /\ connection' = "open"
            /\ confirms' \in ConfirmModes(confirm_publish)
            /\ failed_before' = (rfails >= 2)
            /\ reconnect_delay' = DelayAfterConnect(reconnect_delay)
            /\ rfails' = 0
            /\ rpc' = "inner"
       ELSE /\ rpc' = "backoff"
            /\ rfails' = Failed(rfails)
            /\ UNCHANGED <<connection, reconnect_delay, confirms, failed_before>>
    /\ UNCHANGED <<facadeVars, publish_queue, stop_event, rabbit_thread, rabbit_started,
                   rhand, rsent, snsVars, throttleVars, hostVars, rfailed, sfailed, sskipped,
                   confirm_publish, unserializable, runacked, rnacked>>

\* The wait of the backoff is over (or the stop event was set): the delay
\* doubles up to the maximum.
RBackoffEnd ==
    /\ rpc = "backoff"
    /\ reconnect_delay' = NextDelay(reconnect_delay)
    /\ rpc' = "outer"
    /\ UNCHANGED <<facadeVars, publish_queue, stop_event, rabbit_thread, rabbit_started,
                   connection, rhand, rsent, snsVars, throttleVars, hostVars, channelVars, historyVars>>

\* A mutant of AfterPumpFailure: the get has taken an entry before the pump failed.
AfterPumpFailure_Pop(q) == IF q = <<>> THEN q ELSE Tail(q)

\* RabbitMQBroker._run: process_data_events raises before the get of the
\* iteration, so the queue is as it was.
AfterPumpFailure(q) == q

\* A mutant of AfterDumpsFailure: the entry goes back to the tail of the queue.
AfterDumpsFailure_Requeue(q) == Append(Tail(q), Head(q))

\* RabbitMQBroker._run, json.dumps raised on the entry the get took: the entry
\* is dropped and the loop continues.
AfterDumpsFailure(q) == Tail(q)

\* One turn of the inner loop up to the serialization: the I/O pump, whose
\* failure tears the connection down, then the next message of the queue,
\* which is dropped if json.dumps cannot serialize it.
RInner ==
    /\ rpc = "inner"
    /\ IF stop_event \/ connection # "open"
       THEN /\ rpc' = "outer"
            /\ UNCHANGED <<connection, publish_queue, rhand, rfails>>
       ELSE IF ~net
       THEN /\ connection' = "None"
            /\ rpc' = "backoff"
            /\ rfails' = Failed(rfails)
            /\ publish_queue' = AfterPumpFailure(publish_queue)
            /\ UNCHANGED rhand
       ELSE /\ publish_queue # <<>>
            /\ IF Head(publish_queue) \in unserializable
               THEN /\ publish_queue' = AfterDumpsFailure(publish_queue)
                    /\ UNCHANGED <<rhand, rpc>>
               ELSE /\ rhand' = Head(publish_queue)
                    /\ publish_queue' = Tail(publish_queue)
                    /\ rpc' = "popped"
            /\ UNCHANGED <<connection, rfails>>
    /\ UNCHANGED <<facadeVars, stop_event, rabbit_thread, rabbit_started,
                   reconnect_delay, rsent, snsVars, throttleVars, hostVars, channelVars, rfailed,
                   sfailed, sskipped>>

\* A mutant of BasicPublishOk: basic_publish never waits for the acknowledgment.
BasicPublishOk_NoConfirm(ack, mode) == TRUE

\* channel.basic_publish: on a channel in confirm mode it raises unless the
\* broker acknowledges the message; on any other channel it does not wait.
BasicPublishOk(ack, mode) == ack \/ mode # "on"

\* basic_publish of the message taken, the broker acknowledging it or not: on
\* failure the message goes back to the tail of the queue and the connection
\* is torn down.
RPublish ==
    /\ rpc = "popped"
    /\ \E ack \in BOOLEAN :
       IF net /\ connection = "open" /\ BasicPublishOk(ack, confirms)
       THEN /\ rsent' = Append(rsent, rhand)
            /\ runacked' = IF confirm_publish /\ ~ack
                            THEN runacked \cup {rhand} ELSE runacked
            /\ rpc' = "inner"
            /\ UNCHANGED <<publish_queue, connection, rfailed, rfails, rnacked>>
       ELSE /\ publish_queue' = Requeue(publish_queue, rhand)
            /\ connection' = "None"
            /\ rpc' = "backoff"
            /\ rfailed' = rfailed \cup {rhand}
            /\ rnacked' = IF net /\ connection = "open"
                           THEN rnacked \cup {rhand} ELSE rnacked
            /\ rfails' = Failed(rfails)
            /\ UNCHANGED <<rsent, runacked>>
    /\ rhand' = NoneId
    /\ UNCHANGED <<facadeVars, stop_event, rabbit_thread, rabbit_started,
                   reconnect_delay, snsVars, throttleVars, hostVars, sfailed, sskipped,
                   confirm_publish, confirms, unserializable, failed_before>>

\* SNSBroker._worker_loop, the loop test and the lock of _get_next_msg.
SLoop ==
    /\ spc = "loop"
    /\ IF ~running
       THEN /\ spc' = "done"
            /\ UNCHANGED msg_queue_lock
       ELSE /\ msg_queue_lock = "free"
            /\ msg_queue_lock' = "worker"
            /\ spc' = "locked"
    /\ UNCHANGED <<facadeVars, rabbitVars, msg_queue, running, sns_thread, sns_started,
                   sns_client, shand, ssent, throttleVars, hostVars, channelVars, historyVars>>

\* A mutant of PopIndex: the worker takes the newest message.
PopIndex_Last(q) == Len(q)

\* SNSBroker._get_next_msg: pop(0).
PopIndex(q) == 1

\* q without its i-th element.
Without(q, i) == SubSeq(q, 1, i - 1) \o SubSeq(q, i + 1, Len(q))

\* SNSBroker._get_next_msg under the lock: the head of the queue, or nothing.
SGetNext ==
    /\ spc = "locked"
    /\ IF msg_queue = <<>>
       THEN /\ msg_queue_lock' = "free"
            /\ spc' = "sleep"
            /\ UNCHANGED <<msg_queue, shand>>
       ELSE /\ shand' = msg_queue[PopIndex(msg_queue)]
            /\ msg_queue' = Without(msg_queue, PopIndex(msg_queue))
            /\ msg_queue_lock' = LockAfterPop
            /\ spc' = "got"
    /\ UNCHANGED <<facadeVars, rabbitVars, running, sns_thread, sns_started, sns_client,
                   ssent, throttleVars, hostVars, channelVars, historyVars>>

\* A mutant of AfterSnsFailure: the message goes back on the queue.
AfterSnsFailure_Requeue(q, m) == Append(q, m)

\* SNSBroker._worker_loop, the except clause: the queue is left as it is.
AfterSnsFailure(q, m) == q

\* SNSBroker._publish_msg and the except of the loop: without a client the
\* message is let go; a failed publish clears the client and sleeps.
SPublish ==
    /\ spc = "got"
    /\ msg_queue_lock' = "free"
    /\ IF sns_client = "None"
       THEN /\ spc' = "loop"
            /\ sskipped' = sskipped \cup {shand}
            /\ UNCHANGED <<sns_client, ssent, sfailed, msg_queue>>
       ELSE IF net
       THEN /\ ssent' = Append(ssent, shand)
            /\ spc' = "loop"
            /\ UNCHANGED <<sns_client, sfailed, sskipped, msg_queue>>
       ELSE /\ sns_client' = "None"
            /\ spc' = "sleep"
            /\ sfailed' = sfailed \cup {shand}
            /\ msg_queue' = AfterSnsFailure(msg_queue, shand)
            /\ UNCHANGED <<ssent, sskipped>>
    /\ shand' = NoneId
    /\ UNCHANGED <<facadeVars, rabbitVars, running, sns_thread, sns_started,
                   throttleVars, hostVars, channelVars, rfailed, rfails>>

\* time.sleep is over.
SWake ==
    /\ spc = "sleep"
    /\ spc' = "loop"
    /\ UNCHANGED <<facadeVars, rabbitVars, msg_queue, msg_queue_lock, running,
                   sns_thread, sns_started, sns_client, shand, ssent, throttleVars, hostVars, channelVars,
                   historyVars>>

\* The facade and its publisher, the throttle at rest.
BrokerSpecInit ==
    /\ ThrottleInit
    /\ config = [StoredInstance |-> TRUE, DeletedSeries |-> TRUE, StableSeries |-> TRUE]
    /\ throttle_ms = ThrottleMs
    /\ callers = Threads
    /\ BrokerInit

BrokerNext ==
    \/ \E k \in TransportKinds, url \in BOOLEAN : BrokerConstruct(k, url)
    \/ FacadeConnectNone
    \/ FacadeConnectRabbit
    \/ FacadeConnectSns
    \/ FacadePublishNone
    \/ FacadePublishRabbit
    \/ FacadePublishSns
    \/ FacadeDisconnectNone
    \/ FacadeDisconnectRabbitBegin
    \/ FacadeDisconnectRabbitEnd
    \/ FacadeDisconnectSnsBegin
    \/ FacadeDisconnectSnsEnd
    \/ NetFlip
    \/ ROuter
    \/ RConnect
    \/ RBackoffEnd
    \/ RInner
    \/ RPublish
    \/ SLoop
    \/ SGetNext
    \/ SPublish
    \/ SWake

SpecBroker == BrokerSpecInit /\ [][BrokerNext]_vars

\* Broker.publish -> RabbitMQBroker.publish of a message json.dumps cannot
\* serialize: put_nowait takes it like any other.
FacadePublishUnserializable ==
    /\ facade = "built" /\ Len(calls) < MaxCalls
    /\ broker = "rabbitmq"
    /\ ~QueueFull(publish_queue)
    /\ msgs' = msgs + 1
    /\ publish_queue' = Append(publish_queue, msgs + 1)
    /\ unserializable' = unserializable \cup {msgs + 1}
    /\ calls' = Append(calls, Call("publish", broker, PublishRaises("none"),
                                   "none", TRUE, FALSE, WorkerStarted))
    /\ UNCHANGED <<facade, kind, broker, fpc, net, stop_event, rabbit_thread,
                   rabbit_started, connection, reconnect_delay, rpc, rhand, rsent,
                   snsVars, throttleVars, hostVars, historyVars, confirm_publish, confirms,
                   runacked, rnacked, failed_before>>

\* The RabbitMQ publisher behind the facade, ConfirmPublish given or not, with
\* messages of both sorts.
RabbitInit ==
    /\ ThrottleInit
    /\ config = [StoredInstance |-> TRUE, DeletedSeries |-> TRUE, StableSeries |-> TRUE]
    /\ throttle_ms = ThrottleMs
    /\ callers = Threads
    /\ PublishersInit /\ net = TRUE
    /\ confirm_publish \in BOOLEAN

RabbitNext ==
    \/ BrokerConstruct("rabbitmq", TRUE)
    \/ FacadeConnectRabbit
    \/ FacadePublishRabbit
    \/ FacadePublishUnserializable
    \/ FacadeDisconnectRabbitBegin
    \/ FacadeDisconnectRabbitEnd
    \/ NetFlip
    \/ ROuter
    \/ RConnect
    \/ RBackoffEnd
    \/ RInner
    \/ RPublish

SpecRabbit == RabbitInit /\ [][RabbitNext]_vars


\* ------------------------------------------------------------- helpers
HandedIds == {handed[i].ev : i \in 1..Len(handed)}

IsHanded(e) == e \in HandedIds

\* How often payload e was handed to the broker.
TimesHanded(e) == Cardinality({i \in 1..Len(handed) : handed[i].ev = e})

KeyOf(i) == events[handed[i].ev].seriesID

\* handed[i] and handed[j] are consecutive publishes of one key.
ConsecutiveForKey(i, j) ==
    /\ i < j
    /\ KeyOf(i) = KeyOf(j)
    /\ \A m \in (i + 1)..(j - 1) : KeyOf(m) # KeyOf(i)

AllIdle == \A p \in Threads : pc[p] = "idle"

\* ---------------------------------------------------------------- claims

\* C1: a deferred payload whose series is deleted while its timer is pending is
\* never handed to the broker afterwards.
C1_DeletionCancelsTrailing ==
    \A e \in deletedPending : ~IsHanded(e)

C3_LatestEventDelivered ==
    \A k \in Keys :
        <>[](k \in deletedKeys \/ lastObserved[k] = NoneId \/ IsHanded(lastObserved[k]))

\* The last payload of a key was deferred and then published by its timer.
C3_Witness ==
    \E k \in Keys, i \in 1..Len(handed) :
        /\ k \notin deletedKeys
        /\ handed[i].ev = lastObserved[k]
        /\ handed[i].via = "trailing"
        /\ Len(events) = MaxEvents /\ AllIdle

\* C4: with a throttle window W > 0, two consecutive publishes of one key are at
\* least W apart.
C4_MinimumSpacing ==
    throttle_ms > 0 =>
        \A i, j \in 1..Len(handed) :
            ConsecutiveForKey(i, j) => handed[j].t - handed[i].t >= throttle_ms

\* Publishes of one key follow the order in which the payloads took the lock.
PublishedInArrivalOrder ==
    \A i, j \in 1..Len(handed) :
        (i < j /\ KeyOf(i) = KeyOf(j)) => events[handed[i].ev].seq < events[handed[j].ev].seq

\* With window 0: no timer is ever scheduled, no payload is handed over twice,
\* and a payload whose call has returned was handed over once, at its arrival.
ZeroWindowOncePerEvent ==
    /\ timers = <<>>
    /\ \A e \in 1..Len(events) :
          /\ TimesHanded(e) <= 1
          /\ (\A p \in Threads : cur[p] # e) => TimesHanded(e) = 1
    /\ \A i \in 1..Len(handed) :
          handed[i].via = "immediate" /\ handed[i].t = events[handed[i].ev].now

\* C5 as stated: with window 0 every payload is published once, at once, and
\* in arrival order, whichever threads call on_stored_instance.
C5_ZeroWindowAsStated ==
    throttle_ms = 0 => ZeroWindowOncePerEvent /\ PublishedInArrivalOrder

\* C5 amended: with window 0 every payload is published once, at once, and no
\* timer is scheduled; publishes of a key are in arrival order when one thread
\* calls on_stored_instance (with concurrent callers the publish follows the
\* release of the lock, and two payloads can be handed over in either order).
C5_ZeroWindowAmended ==
    throttle_ms = 0 =>
        /\ ZeroWindowOncePerEvent
        /\ Cardinality(callers) = 1 => PublishedInArrivalOrder

\* Window 0, one caller, and all instances of the run published.
C5_Witness ==
    /\ throttle_ms = 0
    /\ Cardinality(callers) = 1
    /\ Len(handed) = MaxEvents
    /\ \E i, j \in 1..Len(handed) : i < j /\ KeyOf(i) = KeyOf(j)


\* ------------------------------------------------- the facade's contract
FacadePublish == FacadePublishNone \/ FacadePublishRabbit \/ FacadePublishSns

\* The call that returned in this step, if one did.
Returned(op) ==
    /\ Len(calls') = Len(calls) + 1
    /\ calls'[Len(calls')].op = op

QueuesUnchanged ==
    /\ publish_queue' = publish_queue
    /\ msg_queue' = msg_queue

\* A publish() only enqueues or drops: with a publisher the message joins the
\* tail of that publisher's queue, without one no queue changes; the worker,
\* its connection and what it has sent are as they were.
PublishOnlyEnqueues ==
    Returned("publish") =>
        /\ calls'[Len(calls')].raised = "none"
        /\ calls'[Len(calls')].queued = (broker # "None")
        /\ broker = "None" => QueuesUnchanged
        /\ broker = "rabbitmq" =>
               publish_queue' = Append(publish_queue, msgs') /\ msg_queue' = msg_queue
        /\ broker = "sqs-sns" =>
               msg_queue' = Append(msg_queue, msgs') /\ publish_queue' = publish_queue
        /\ UNCHANGED <<connection, rpc, rsent, spc, ssent, sns_client, net, broker>>

\* publish() can return whatever the network and the worker are at: the one
\* thing it waits for is the worker's pop of the in-memory queue.
PublishNeverWaits ==
    (facade = "built" /\ Len(calls) < MaxCalls /\ spc # "locked")
        => ENABLED FacadePublish

\* C6: Broker.publish never raises and never waits on the network or on the
\* worker's connection state; in every state of the facade it only enqueues or
\* drops, and with no publisher the message is dropped, not queued.
C6_PublishFireAndForget ==
    [][PublishOnlyEnqueues]_vars /\ []PublishNeverWaits

\* A message was queued while the broker was down and the worker was backing
\* off, and a later one was dropped by a facade without publisher.
C6_Witness ==
    /\ ~net /\ rpc = "backoff"
    /\ \E i, j \in 1..Len(calls) :
         /\ i < j
         /\ calls[i].op = "publish" /\ calls[i].queued
         /\ calls[j].op = "publish" /\ ~calls[j].queued

\* C7: disconnect() twice in a row, or before any connect(), never raises for
\* either kind, and afterwards the facade holds no publisher: every later
\* publish() enqueues nothing.
C7_DisconnectIdempotent ==
    /\ \A i \in 1..Len(calls) :
         calls[i].op = "disconnect" => calls[i].raised = "none"
    /\ (Len(calls) > 0 /\ calls[Len(calls)].op = "disconnect") => broker = "None"
    /\ \A i, j \in 1..Len(calls) :
         (i < j /\ calls[i].op = "disconnect" /\ calls[j].op = "publish")
             => (calls[j].held = "None" /\ ~calls[j].queued)

\* disconnect() before any connect(), again disconnect(), then a publish().
C7_Witness ==
    /\ Len(calls) >= 3
    /\ calls[1].op = "disconnect" /\ calls[1].held = "rabbitmq"
    /\ calls[1].absorbed = "RuntimeError"
    /\ calls[2].op = "disconnect"
    /\ calls[3].op = "publish"

\* C8 as stated: no call of the facade raises, connect() after disconnect()
\* included.
C8_NoCallRaises ==
    \A i \in 1..Len(calls) : calls[i].raised = "none"

\* C8 as the code has it: the one call that raises is connect() on a facade
\* without publisher, which raises ValueError; what a publisher raises is
\* absorbed.
C8_OnlyConnectWithoutPublisherRaises ==
    \A i \in 1..Len(calls) :
        /\ calls[i].raised # "none" <=>
               (calls[i].op = "connect" /\ calls[i].held = "None")
        /\ calls[i].raised \in {"none", "ValueError"}
        /\ calls[i].absorbed # "none" => calls[i].raised = "none"

\* A connect() whose publisher failed and was absorbed, and a connect() after
\* disconnect() that raised.
C8_Witness ==
    \E i, j \in 1..Len(calls) :
        /\ i < j
        /\ calls[i].op = "connect" /\ calls[i].absorbed = "ClientError"
        /\ calls[j].op = "connect" /\ calls[j].raised = "ValueError"
        /\ \E d \in (i + 1)..(j - 1) : calls[d].op = "disconnect"

\* A connect() leaves the queues and what the worker holds alone.
ConnectKeepsQueues ==
    Returned("connect") => (QueuesUnchanged /\ UNCHANGED <<rhand, shand, rsent, ssent>>)

\* At most one worker per publisher, and exactly one once a connect() has
\* started it; a connect() on a started publisher starts none.
OneWorker ==
    /\ rabbit_started <= 1 /\ sns_started <= 1
    /\ \A i \in 1..Len(calls) :
         /\ (calls[i].op = "connect" /\ calls[i].started) => ~calls[i].spawned
         /\ calls[i].spawned =>
                (IF calls[i].held = "rabbitmq" THEN rabbit_started ELSE sns_started) = 1

\* C9: connect() is idempotent: on a facade whose publisher is started there
\* is exactly one worker after any number of connect() calls, and a repeated
\* call changes no queue.
C9_ConnectIdempotent ==
    [][ConnectKeepsQueues]_vars /\ []OneWorker

\* connect(), publish(), connect() on the SNS publisher: the message waits in
\* the queue and the second connect() found the worker started.
C9_Witness ==
    /\ Len(calls) >= 3
    /\ calls[1].op = "connect" /\ calls[1].spawned /\ calls[1].held = "sqs-sns"
    /\ calls[2].op = "publish"
    /\ calls[3].op = "connect" /\ calls[3].started /\ ~calls[3].spawned
    /\ msg_queue # <<>>

\* C10: an unsupported transport kind fails the construction: there is no
\* facade, no publisher, and no call on which the failure could show later.
C10_UnsupportedKindFailsConstruction ==
    (kind # "none" /\ kind \notin Supported) =>
        (facade = "failed" /\ broker = "None" /\ calls = <<>>)

\* The construction with kind "kafka" has failed.
C10_Witness == facade = "failed" /\ kind = "kafka"


\* ------------------------------------------------ the publishers' contract
Range(q) == {q[i] : i \in 1..Len(q)}

\* A failed basic_publish puts the entry it held at the tail of the queue and
\* tears the connection down for the backoff wait.
FailureRequeues ==
    (rpc = "popped" /\ rpc' = "backoff") =>
        /\ publish_queue' = Append(publish_queue, rhand)
        /\ connection' = "None"
        /\ rhand \in rfailed'
        /\ rsent' = rsent

\* An entry is delivered over an open connection only; a connection is opened
\* by the connect of the outer loop only; the backoff wait leads to the head
\* of the outer loop only.
RetryAfterReconnect ==
    /\ rsent' # rsent => (rpc = "popped" /\ connection = "open")
    /\ (connection' = "open" /\ connection # "open") => rpc = "connecting"
    /\ rpc = "backoff" => rpc' \in {"backoff", "outer"}
    /\ rpc = "outer" => rpc' \in {"outer", "connecting", "inner", "done"}
    /\ (rpc = "outer" /\ rpc' = "inner") => connection = "open"

\* During the backoff wait the publisher is disconnected.
BackoffDisconnected == rpc = "backoff" => connection # "open"

\* C11: a failed publish attempt puts the same entry back at the tail of the
\* queue and tears the connection down; the entry is published again only
\* after the backoff wait and a reconnect of the worker.
C11_RequeueOnFailure ==
    [][FailureRequeues /\ RetryAfterReconnect]_vars /\ []BackoffDisconnected

\* An entry whose publish failed has been published after a reconnect.
C11_Witness ==
    \E m \in rfailed : m \in Range(rsent) /\ connection = "open"


\* The progress the worker threads make, each network call and each wait
\* returning, and the join of disconnect, which waits two seconds at most.
BrokerFairness ==
    /\ WF_vars(ROuter) /\ WF_vars(RConnect) /\ WF_vars(RBackoffEnd)
    /\ WF_vars(RInner) /\ WF_vars(RPublish)
    /\ WF_vars(SLoop) /\ WF_vars(SGetNext) /\ WF_vars(SPublish) /\ WF_vars(SWake)
    /\ WF_vars(FacadeDisconnectRabbitEnd) /\ WF_vars(FacadeDisconnectSnsEnd)

FairSpecBroker == SpecBroker /\ BrokerFairness

\* The worker runs and is not stopped, and from some time on the broker
\* accepts connections and publishes.
WorkerRunsBrokerRecovers ==
    /\ <>(rabbit_thread = "alive")
    /\ []~stop_event
    /\ <>[]net

\* C12: every message RabbitMQBroker.publish accepted is eventually published,
\* provided the worker runs, is not stopped, and the broker eventually
\* accepts connections and publishes: no publish failure loses a message.
C12_AtLeastOnce ==
    WorkerRunsBrokerRecovers =>
        \A m \in 1..MaxCalls : (m \in Range(publish_queue)) ~> (m \in Range(rsent))

\* Two accepted messages are published, one of them after a failed attempt,
\* with the worker never stopped.
C12_Witness ==
    /\ ~stop_event /\ net /\ rabbit_thread = "alive"
    /\ publish_queue = <<>> /\ rhand = NoneId
    /\ Len(rsent) = 2
    /\ rfailed # {}


\* The capacity the queue was built with or, none being given, the largest
\* one the calls of a run can overrun.
QueueLimit == IF QueueMaxSize > 0 THEN QueueMaxSize ELSE MaxCalls - 1

\* C13: the queue of the reliable publisher is bounded: its length never
\* exceeds its capacity, a publish() at capacity dropping the message.
C13_QueueBounded == Len(publish_queue) <= QueueLimit

RECURSIVE Pow2(_)
Pow2(n) == IF n <= 0 THEN 1 ELSE 2 * Pow2(n - 1)

\* The waits of section "backoff", without the jitter.
BackoffWaits == <<1, 2, 4, 8, 16, 32, 60, 60>>

\* C14: the n-th failure in a row since the last successful connect waits
\* min(60, 2^(n-1)) seconds plus the jitter: 1, 2, 4, 8, 16, 32, 60, 60, ...
C14_BackoffGrowth ==
    rpc = "backoff" =>
        /\ rfails >= 1
        /\ SleepFor = Min(MaxReconnectDelay, ReconnectFloor * Pow2(rfails - 1))
        /\ rfails <= Len(BackoffWaits) => SleepFor = BackoffWaits[rfails]

\* The worker waits at the ceiling for the second time, never having connected.
C14_Witness ==
    /\ rpc = "backoff" /\ rfails = Len(BackoffWaits)
    /\ SleepFor = MaxReconnectDelay
    /\ connection = "None" /\ rsent = <<>> /\ rfailed = {}

\* C15: the SNS worker attempts each message it took at most once: a message
\* whose publish failed is not on the queue, not in the worker's hand and
\* never delivered; a delivered message is delivered once.
C15_AtMostOnce ==
    /\ \A m \in sfailed :
         m \notin Range(msg_queue) /\ m \notin Range(ssent) /\ shand # m
    /\ \A m \in Range(ssent) : m \notin Range(msg_queue) /\ shand # m
    /\ \A i, j \in 1..Len(ssent) : i < j => ssent[i] # ssent[j]

\* One message failed and a later one was delivered.
C15_Witness ==
    \E f \in sfailed : \E i \in 1..Len(ssent) : ssent[i] > f

\* A connect() of the SNS publisher whose reachability check fails raises to
\* its caller, the facade, and leaves the worker as it was.
CheckFailureStopsConnect ==
    (Returned("connect") /\ broker = "sqs-sns" /\ ~net) =>
        /\ calls'[Len(calls')].absorbed = "ClientError"
        /\ ~calls'[Len(calls')].spawned
        /\ UNCHANGED <<sns_started, running, sns_thread, spc>>

\* C16: SNSBroker.connect checks the target before it starts the worker; when
\* the check fails the worker is not started and connect raises to its caller.
C16_ReachabilityBeforeWorker == [][CheckFailureStopsConnect]_vars

\* A connect() failed its check and no worker was ever started.
C16_Witness ==
    /\ Len(calls) > 0
    /\ calls[Len(calls)].op = "connect" /\ calls[Len(calls)].held = "sqs-sns"
    /\ calls[Len(calls)].absorbed = "ClientError"
    /\ sns_started = 0 /\ ~running /\ spc = "new"

\* C17: a publisher delivers in the order of the enqueues, but that an entry
\* of the reliable publisher whose publish failed may come after later ones.
C17_FifoModuloRetries ==
    /\ \A i, j \in 1..Len(rsent) :
         (i < j /\ rsent[i] > rsent[j]) => rsent[j] \in rfailed
    /\ \A i, j \in 1..Len(ssent) : i < j => ssent[i] < ssent[j]

\* A retried entry was delivered after a later one.
C17_Witness ==
    \E i, j \in 1..Len(rsent) : i < j /\ rsent[i] > rsent[j]

\* C20: after a failed publish the SNS worker attempts the messages enqueued
\* later: while the publisher is connected, none of them is let go without
\* an attempt.
C20_AttemptedAfterFailure ==
    (broker = "sqs-sns" /\ running /\ fpc = "idle") =>
        \A f \in sfailed : \A m \in sskipped : m < f


\* C18: once disconnect() has set the stop signal of a started worker, the
\* worker exits and no connection of the publisher stays open, also when the
\* join of disconnect() gave up on the worker.
C18_ShutdownCompletes ==
    /\ (stop_event /\ rabbit_started > 0)
           ~> [](rpc = "done" /\ rabbit_thread = "dead" /\ connection # "open")
    /\ (kind = "sqs-sns" /\ sns_started > 0 /\ ~running)
           ~> [](spc = "done" /\ sns_client = "None")

\* disconnect() has returned, its join given up; the abandoned worker is alive
\* and has opened a connection since.
C18_Witness ==
    /\ broker = "None" /\ fpc = "idle" /\ stop_event
    /\ rabbit_thread = "alive" /\ connection = "open"


DeferralReschedules ==
    \A p \in Threads :
        (pc[p] = "lock" /\ pc'[p] = "idle") =>
            LET e == cur[p]
                s == series_state'[events[e].seriesID]
                old == IF s \in DOMAIN heap THEN heap[s].trailing_timer ELSE NoneId
            IN  /\ heap'[s].trailing_payload = e
                /\ Len(timers') = Len(timers) + 1
                /\ heap'[s].trailing_timer = Len(timers')
                /\ timers'[Len(timers')].status = "waiting"
                /\ timers'[Len(timers')].deadline = events[e].now + throttle_ms
                /\ (old # NoneId /\ timers[old].status = "waiting")
                       => timers'[old].status = "cancelled"

OfState(e, s) == events[e].seq > 0 /\ events[e].state = s

\* What is handed to the broker was not handed before; on the arrival path it
\* is the payload its caller holds, on the timer path the payload that passed
\* the locked section last for the timer's state object.
HandsOnlyLatest ==
    Len(handed') = Len(handed) + 1 =>
        LET h == handed'[Len(handed')] IN
        /\ ~IsHanded(h.ev)
        /\ h.via = "immediate" => \E p \in Threads : pc[p] = "publish" /\ cur[p] = h.ev
        /\ h.via = "trailing" =>
               \A e \in 1..Len(events) :
                   OfState(e, events[h.ev].state) => events[e].seq <= events[h.ev].seq

\* C21: a deferred payload that a later deferred payload has replaced, or that
\* a later immediate publish has discarded, is never handed to the broker, also
\* when its timer's callback was waiting for the lock; no payload is handed twice.
C21_SupersededNeverPublished == [][HandsOnlyLatest]_vars

\* A timer's callback ran and found nothing to send: the payload it was started
\* for was discarded by a later immediate publish of the same state object.
C21_Witness ==
    \E i \in 1..Len(timers) : \E e, l \in 1..Len(events) :
        /\ timers[i].status = "done"
        /\ OfState(e, timers[i].state) /\ OfState(l, timers[i].state)
        /\ events[e].seq < events[l].seq
        /\ ~IsHanded(e) /\ \A p \in Threads : cur[p] # e
        /\ \E n \in 1..Len(handed) : handed[n].ev = l /\ handed[n].via = "immediate"
        /\ \A n \in 1..Len(handed) : handed[n].via = "immediate"


\* C22: the first payload of a freshly created state object is published at
\* once, whatever the window and the clock: it goes to the publish after the
\* lock and is not held back for a timer.
C22_FirstEventImmediate ==
    \A e \in 1..Len(events) :
        (events[e].seq > 0 /\ events[e].instanceCount = 1 /\ ThrottlingEnabled)
            => \/ \E p \in Threads : pc[p] = "publish" /\ cur[p] = e
               \/ \E n \in 1..Len(handed) : handed[n].ev = e /\ handed[n].via = "immediate"

\* C23: every timer that is scheduled, neither fired nor cancelled, is the
\* one its state object holds in trailing_timer, and that state object is in
\* the map: one live timer per key at most, none for a removed state.
C23_OneLiveTimerPerKey ==
    \A i \in 1..Len(timers) :
        timers[i].status = "waiting" =>
            /\ heap[timers[i].state].trailing_timer = i
            /\ \E k \in Keys : series_state[k] = timers[i].state


\* A change callback of the given kind was handled in this step.
Handled(what) == changes' = changes + 1 /\ lastChange'.kind = what

\* C24: when a series-deleted change for a key has been handled the key has
\* no entry in the map, whichever event classes are enabled, and the entries
\* of the other keys are as they were.
C24_DeletionRemovesState ==
    [][Handled("deleted") =>
          /\ series_state'[lastChange'.key] = NoneId
          /\ \A k \in Keys \ {lastChange'.key} : series_state'[k] = series_state[k]]_vars

\* The step runs under series_state_lock: the locked section of a caller, or
\* the callback of a timer.
UnderLock ==
    \/ \E p \in Threads : pc[p] = "lock" /\ pc'[p] # "lock"
    \/ \E i \in 1..Len(timers) : timers[i].status = "fired" /\ timers'[i].status = "done"

\* C26: nothing is handed to broker.publish in a step that holds the lock of
\* the throttle state, on the arrival path and on the timer path.
C26_NoPublishUnderLock == [][handed' # handed => ~UnderLock]_vars

\* The payloads of a state object are numbered 1, 2, 3, ... in the order in
\* which they took the lock.
NumberedInLockOrder ==
    \A e \in 1..Len(events) :
        events[e].seq > 0 =>
            events[e].instanceCount =
                Cardinality({f \in 1..Len(events) :
                                OfState(f, events[e].state)
                                /\ events[f].seq <= events[e].seq})

\* A stable-series change, when enabled, removes the key's entry, and a payload
\* that finds no entry for its key gets number 1.
NumberingRestarts ==
    /\ (Handled("stable") /\ config.StableSeries)
           => series_state'[lastChange'.key] = NoneId
    /\ \A p \in Threads :
           (pc[p] = "lock" /\ pc'[p] # "lock"
            /\ series_state[events[cur[p]].seriesID] = NoneId)
               => events'[cur[p]].instanceCount = 1

\* C30: the payloads of a series get instanceCount 1, 2, 3, ... in the order
\* of the lock since the state was created, no two of one state the same, and
\* a stable-series change that is enabled restarts the count at 1.
C30_InstanceCountNumbering ==
    [][NumberingRestarts]_vars /\ []NumberedInLockOrder

\* Payloads 1 and 2 of a series, the stable-series change, then payload 1 again.
C30_Witness ==
    /\ lastChange.kind = "stable" /\ config.StableSeries
    /\ \E e, f, g \in 1..Len(events) :
         /\ events[e].seriesID = lastChange.key
         /\ events[f].seriesID = lastChange.key
         /\ events[g].seriesID = lastChange.key
         /\ events[e].seq > 0 /\ events[e].seq < events[f].seq
         /\ events[f].seq < events[g].seq
         /\ events[e].instanceCount = 1
         /\ events[f].instanceCount = 2
         /\ events[g].instanceCount = 1

\* A step of the RabbitMQ worker, and of the SNS worker: their position moves.
RabbitWorkerStep == rpc' # rpc

SnsWorkerStep == spc' # spc

\* C25: the connection or client handle of a publisher is created, closed
\* and cleared only by that publisher's own worker; no other thread, the one
\* calling connect() or disconnect() included, modifies it while the worker
\* is still running.
C25_SingleWriterConnection ==
    [][/\ connection' # connection => RabbitWorkerStep
       /\ sns_client' # sns_client => SnsWorkerStep]_vars

\* _ensure_connection has returned in the branch of _run that connects.
ConnectSucceeds == rpc = "connecting" /\ connection' = "open"

\* C28: every successful connect puts the backoff delay back at the floor,
\* whatever the failures before it made of it, so the delay is at the floor
\* while the connection is open, and the first wait after a successful
\* connect is the floor (plus the jitter).
C28_BackoffReset ==
    /\ [][ConnectSucceeds => reconnect_delay' = ReconnectFloor]_vars
    /\ [](connection = "open" => reconnect_delay = ReconnectFloor)
    /\ []((rpc = "backoff" /\ rfails = 1) => SleepFor = ReconnectFloor)

\* The worker connected after two failures in a row or more, then lost the
\* connection, and waits the floor.
C28_Witness ==
    /\ failed_before
    /\ rpc = "backoff" /\ rfails = 1 /\ connection = "None"
    /\ SleepFor = ReconnectFloor

\* The worker, in its inner loop, takes from the queue an entry that json.dumps
\* cannot serialize: no other step changes the queue without lengthening it.
TakesUnserializable ==
    /\ rpc = "inner"
    /\ publish_queue # <<>> /\ Head(publish_queue) \in unserializable
    /\ publish_queue' # publish_queue /\ Len(publish_queue') <= Len(publish_queue)

\* The entry is dropped and nothing else happens: the connection stays open,
\* the delay and the count of failures stay, and the worker is back in its
\* inner loop, at the next entry.
DropsOnlyThat ==
    TakesUnserializable =>
        /\ publish_queue' = Tail(publish_queue)
        /\ rsent' = rsent /\ rhand' = rhand
        /\ rfailed' = rfailed /\ rfails' = rfails
        /\ connection = "open" /\ connection' = "open"
        /\ reconnect_delay' = reconnect_delay
        /\ rpc' = "inner"

\* An unserializable message is never in the worker's hand for basic_publish,
\* never published and never requeued as a failed publish.
NeverPublished ==
    \A u \in unserializable :
        u \notin Range(rsent) /\ rhand # u /\ u \notin rfailed

\* C27: a serialization failure in the RabbitMQ worker drops exactly that
\* message: it is not requeued and not published, the connection stays open
\* with the backoff delay unchanged and no wait, and the next entry of the
\* queue is processed.
C27_SerializationFailureDrops == [][DropsOnlyThat]_vars /\ []NeverPublished

\* An unserializable message is gone from the queue and a later message was
\* published on the same connection, no failure having happened at all.
C27_Witness ==
    \E u \in unserializable : \E i \in 1..Len(rsent) :
        /\ rsent[i] > u
        /\ u \notin Range(publish_queue)
        /\ connection = "open" /\ rfails = 0 /\ rfailed = {} /\ ~failed_before

\* basic_publish has returned or raised on the entry the worker held.
PublishAttempt == rpc = "popped" /\ rpc' # "popped"

\* C29 as stated: with ConfirmPublish enabled no entry is treated as published
\* without an acknowledgment of the broker.
C29_AckedOrRequeuedAsStated == confirm_publish => runacked = {}

\* On a channel in confirm mode an attempt either publishes the entry with the
\* acknowledgment or requeues it as failed.
ConfirmModeRequeues ==
    (PublishAttempt /\ confirms = "on") =>
        \/ /\ rsent' = Append(rsent, rhand)
           /\ runacked' = runacked /\ publish_queue' = publish_queue
        \/ /\ publish_queue' = Append(publish_queue, rhand)
           /\ rsent' = rsent /\ rhand \in rfailed'

\* Where confirm_delivery() raised at connect, an attempt on the open
\* connection publishes the entry, acknowledged or not.
WithoutConfirmsPublishes ==
    (PublishAttempt /\ confirms = "failed" /\ net /\ connection = "open") =>
        /\ rsent' = Append(rsent, rhand) /\ publish_queue' = publish_queue
        /\ rhand \notin rfailed' \ rfailed

\* Every connection made with ConfirmPublish enabled asked for confirm mode;
\* the entries failed for want of an acknowledgment are requeued ones, and
\* those passed without one were published.
ConfirmModeAsked ==
    /\ (confirm_publish /\ connection = "open") => confirms \in {"on", "failed"}
    /\ rnacked \subseteq rfailed
    /\ runacked \subseteq Range(rsent)
    /\ ~confirm_publish => (runacked = {} /\ rnacked = {} /\ confirms = "off")

\* C29 amended: with ConfirmPublish enabled and the channel put in confirm
\* mode at connect, an entry leaves the queue for good only if the broker
\* acknowledged it, and a publish without an acknowledgment is a failure and
\* is requeued; when confirm_delivery() raised at connect the worker goes on
\* without confirms and an entry counts as published without an acknowledgment.
C29_AckedOrRequeuedAmended ==
    [][ConfirmModeRequeues /\ WithoutConfirmsPublishes]_vars /\ []ConfirmModeAsked

\* An entry was requeued for want of an acknowledgment and published later,
\* and an entry was published without an acknowledgment.
C29_Witness ==
    /\ confirm_publish
    /\ \E m \in rnacked : m \in Range(rsent)
    /\ runacked # {}

\* process_data_events raised: the worker leaves its inner loop for the
\* backoff wait without having taken an entry.
PumpFails == rpc = "inner" /\ rpc' = "backoff"

\* C33: when the keepalive pump fails in the RabbitMQ worker, the connection
\* is torn down and a backoff wait follows, and the queue is unchanged: no
\* entry was taken, published or requeued in that iteration.
C33_KeepaliveFailureLosesNothing ==
    [][PumpFails =>
          /\ connection' = "None"
          /\ publish_queue' = publish_queue
          /\ rhand' = rhand /\ rsent' = rsent /\ rfailed' = rfailed]_vars

\* The worker published an entry, then its pump failed with an entry waiting:
\* it is in the backoff wait, the entry still queued and no publish ever failed.
C33_Witness ==
    /\ rpc = "backoff" /\ rfails = 1 /\ connection = "None"
    /\ rsent # <<>> /\ rfailed = {}
    /\ publish_queue # <<>>

\* The facade holds an SNS publisher and connect() has been called on it.
SnsHeldAfterConnect ==
    /\ broker = "sqs-sns"
    /\ \E i \in 1..Len(calls) : calls[i].op = "connect" /\ calls[i].held = "sqs-sns"

\* C32: while the facade holds an SNS publisher on which connect() was called
\* and disconnect() was not, every message publish() accepted is eventually
\* taken off the queue by the worker, also when the reachability check of
\* connect() failed.
C32_NoStrandedMessages ==
    \A m \in 1..MaxCalls :
        (SnsHeldAfterConnect /\ m \in Range(msg_queue))
            ~> (m \notin Range(msg_queue) \/ broker # "sqs-sns")


\* ------------------------------------------------- the host's lifecycle
\* How many instances the host stores in a run.
MaxInstances == 2

\* The call the facade returned from last, or none.
LastCall == IF calls = <<>> THEN "none" ELSE calls[Len(calls)].op

\* on_stored_instance of src/__init__.py, in the core of the host: the data
\* of the instance is put on the queue.
HostStoredInstance(k) ==
    /\ facade = "built" /\ host \in {"started", "stopping"}
    /\ stored < MaxInstances
    /\ stored' = stored + 1
    /\ instance_queue' = Append(instance_queue, k)
    /\ UNCHANGED <<host, processor, ppc, pmark, pinst, throttleVars, brokerVars>>

\* on_change(ORTHANC_STARTED) is entered; the thumbnail plugin ignores it.
HostStartBegin ==
    /\ facade = "built" /\ host = "loaded"
    /\ host' = "starting"
    /\ UNCHANGED <<processor, ppc, pmark, pinst, instance_queue, stored, throttleVars,
                   brokerVars>>

\* DicomEvents.on_change(ORTHANC_STARTED): self.broker.connect().
HostStartConnectRabbit == host = "starting" /\ LastCall = "none" /\ FacadeConnectRabbit

HostStartConnectSns == host = "starting" /\ LastCall = "none" /\ FacadeConnectSns

\* DicomEvents.on_orthanc_started: the stored patients are published.
HostStartPublishRabbit == host = "starting" /\ LastCall = "connect" /\ FacadePublishRabbit

HostStartPublishSns == host = "starting" /\ LastCall = "connect" /\ FacadePublishSns

\* The rest of on_change(ORTHANC_STARTED): processor.start(), which is not
\* reached when Broker.connect raised for want of a publisher.
HostStartEnd ==
    /\ host = "starting"
    /\ LastCall = "publish" \/ (LastCall = "connect" /\ calls[Len(calls)].raised # "none")
    /\ IF LastCall = "publish"
       THEN processor' = "alive" /\ ppc' = "get"
       ELSE UNCHANGED <<processor, ppc>>
    /\ host' = "started"
    /\ UNCHANGED <<pmark, pinst, instance_queue, stored, throttleVars, brokerVars>>

\* on_change(ORTHANC_STOPPED) is entered.
HostStopBegin ==
    /\ host = "started"
    /\ host' = "stopping"
    /\ UNCHANGED <<processor, ppc, pmark, pinst, instance_queue, stored, throttleVars,
                   brokerVars>>

\* DicomEvents.on_change(ORTHANC_STOPPED): self.broker.disconnect().
HostStopDisconnectRabbit ==
    host = "stopping" /\ LastCall # "disconnect" /\ FacadeDisconnectRabbitBegin

HostStopDisconnectSns ==
    host = "stopping" /\ LastCall # "disconnect" /\ FacadeDisconnectSnsBegin

\* The broker is disconnected: Broker.disconnect has returned to on_change.
BrokerDisconnected == host = "stopping" /\ LastCall = "disconnect" /\ fpc = "idle"

\* Thread.join() without a timeout: it raises on a thread never started,
\* returns once the thread has ended, and blocks until then.
JoinOutcome(thread, pos) ==
    IF thread = "new" THEN "raised"
    ELSE IF pos = "done" THEN "returned" ELSE "blocked"

\* The rest of on_change(ORTHANC_STOPPED): processor.join() is called.
HostJoin ==
    /\ BrokerDisconnected
    /\ host' = "joining"
    /\ UNCHANGED <<processor, ppc, pmark, pinst, instance_queue, stored, throttleVars,
                   brokerVars>>

\* on_change(ORTHANC_STOPPED) is over: its join has returned or raised.
StopHandled == host = "joining" /\ JoinOutcome(processor, ppc) # "blocked"

\* process_instances, `while True`: no state of the host ends the loop.
LoopGoesOn(h) == TRUE

\* process_instances up to the call of the plugins: get(timeout=1) returns an
\* instance or raises Empty, which is passed over; RestApiGet answers or
\* raises, which is printed; either way the loop goes on.
ProcGet ==
    /\ processor = "alive" /\ ppc = "get"
    /\ IF ~LoopGoesOn(host)
       THEN /\ ppc' = "done"
            /\ UNCHANGED <<instance_queue, pmark, pinst>>
       ELSE IF instance_queue = <<>>
       THEN UNCHANGED <<ppc, instance_queue, pmark, pinst>>
       ELSE /\ instance_queue' = Tail(instance_queue)
            /\ \E answered \in BOOLEAN :
                 IF answered
                 THEN /\ ppc' = "handle"
                      /\ pmark' = Len(events)
                      /\ pinst' = Head(instance_queue)
                 ELSE UNCHANGED <<ppc, pmark, pinst>>
    /\ UNCHANGED <<host, processor, stored, throttleVars, brokerVars>>

\* process_instances calls dicom_events_plugin.on_stored_instance, which
\* runs in the processing thread.
ProcArrive ==
    /\ ppc = "handle" /\ Len(events) = pmark
    /\ Arrive("t1", pinst)

\* The plugins have returned (or raised, which is printed): the next turn.
ProcDone ==
    /\ ppc = "handle" /\ pc["t1"] = "idle" /\ Len(events) > pmark
    /\ ppc' = "get" /\ pinst' = "none"
    /\ UNCHANGED <<host, processor, pmark, instance_queue, stored, throttleVars,
                   brokerVars>>

\* The plugin as Orthanc loads it: throttling off, DicomEvents with a broker
\* of any supported kind or none.
HostInit ==
    /\ ThrottleInit
    /\ config = [StoredInstance |-> TRUE, DeletedSeries |-> TRUE, StableSeries |-> TRUE]
    /\ throttle_ms = 0
    /\ callers = {"t1"}
    /\ BrokerInit

HostNext ==
    \/ \E k \in TransportKinds : BrokerConstruct(k, TRUE)
    \/ \E k \in Keys : HostStoredInstance(k)
    \/ HostStartBegin
    \/ HostStartConnectRabbit
    \/ HostStartConnectSns
    \/ HostStartPublishRabbit
    \/ HostStartPublishSns
    \/ HostStartEnd
    \/ HostStopBegin
    \/ HostStopDisconnectRabbit
    \/ HostStopDisconnectSns
    \/ FacadeDisconnectRabbitEnd
    \/ FacadeDisconnectSnsEnd
    \/ HostJoin
    \/ ProcGet
    \/ ProcArrive
    \/ LockedSection("t1")
    \/ PublishStep("t1")
    \/ ProcDone
    \/ NetFlip
    \/ ROuter
    \/ RConnect
    \/ RBackoffEnd
    \/ RInner
    \/ RPublish
    \/ SLoop
    \/ SGetNext
    \/ SPublish
    \/ SWake

SpecHost == HostInit /\ [][HostNext]_vars

\* The threads run and the calls of on_change go on: the processing thread,
\* the workers of the publishers, and the handler of a lifecycle change.
HostFairness ==
    /\ BrokerFairness
    /\ WF_vars(ProcGet) /\ WF_vars(ProcArrive) /\ WF_vars(ProcDone)
    /\ WF_vars(LockedSection("t1")) /\ WF_vars(PublishStep("t1"))
    /\ WF_vars(HostStartEnd) /\ WF_vars(HostJoin)

FairSpecHost == SpecHost /\ HostFairness

\* C31: handling ORTHANC_STOPPED returns: once the broker is disconnected,
\* the join on the processing thread completes, the processing loop having
\* left once the host has stopped.
C31_HostShutdownTerminates == BrokerDisconnected ~> StopHandled

====
